---------------------------- MODULE Spec2Model ----------------------------
(***************************************************************************)
(* A model of ScanFiles.py: a term list is loaded into a result table, a   *)
(* thread pool scans every file of a corpus line by line with a flashtext  *)
(* KeywordProcessor, and the main thread folds each finished per-file      *)
(* result into the table.                                                  *)
(*                                                                         *)
(* Text is a sequence of characters, each character a one-character        *)
(* string.  "e'" stands for the accented letter e-acute (U+00E9), and " "  *)
(* for any white space, the line terminator included.                      *)
(***************************************************************************)
EXTENDS Integers, Sequences, FiniteSets, Bags, TLC

(***************************************************************************)
(* Bounds of the model.                                                    *)
(***************************************************************************)
MaxFiles == 2
MaxWorkers == 2
MaxLineLen == 3

(***************************************************************************)
(* Characters.                                                             *)
(***************************************************************************)
AsciiLower == {"a", "b", "c"}
AsciiUpper == {"A"}
AsciiDigits == {"1"}
Accented == {"e'"}
Alphabet == {"a", "A", "1", "_", ".", " ", "e'"}

\* str.lower() on one code point.
lowerChar(c) == IF c = "A" THEN "a" ELSE c

\* str.lower()
lower(s) == [i \in 1..Len(s) |-> lowerChar(s[i])]

\* flashtext: KeywordProcessor.non_word_boundaries,
\* set(string.digits + string.ascii_letters + '_').
non_word_boundaries == AsciiDigits \cup AsciiLower \cup AsciiUpper \cup {"_"}

IsPrefix(p, s) == Len(p) <= Len(s) /\ SubSeq(s, 1, Len(p)) = p

Range(s) == {s[i] : i \in 1..Len(s)}

(***************************************************************************)
(* LoadTermList: the keys of the result table.                             *)
(***************************************************************************)
\* The term kept as given, whatever the case policy.
TermKeyKeepCase(term, case_sensitive) == term

\* The key LoadTermList stores a term under.
TermKey(term, case_sensitive) == IF case_sensitive THEN term ELSE lower(term)

\* The result table LoadTermList returns: every key with an empty hit list.
LoadedTermList(terms, case_sensitive) ==
    [k \in {TermKey(terms[i], case_sensitive) : i \in 1..Len(terms)} |-> <<>>]

(***************************************************************************)
(* BuildKeywordProcessor and flashtext's KeywordProcessor.  The trie is    *)
(* the set of keywords; a trie node is the prefix that leads to it.        *)
(***************************************************************************)
\* add_keyword: the string entered into the trie for a term.
TrieWord(term, case_sensitive) == IF case_sensitive THEN term ELSE lower(term)

\* The keywords of the processor built from the table's keys.
BuildKeywordProcessor(keys, case_sensitive) ==
    {TrieWord(k, case_sensitive) : k \in keys}

\* `char in current_dict`
HasChild(kp, node, char) == \E w \in kp : IsPrefix(Append(node, char), w)

\* `self._keyword in current_dict`
HasKeyword(kp, node) == node \in kp

\* current_dict[self._keyword]: the clean name stored at a node, the term as
\* it was given to add_keyword.
CleanName(keys, case_sensitive, node) ==
    CHOOSE k \in keys : TrieWord(k, case_sensitive) = node

\* The inner loop of extract_keywords: from position idy (0-based) follow the
\* trie as far as the sentence allows, remembering the longest keyword that
\* ends right before a word boundary or at the end of the sentence.
RECURSIVE LongestFrom(_, _, _, _, _)
LongestFrom(kp, sentence, idy, node, best) ==
    IF idy >= Len(sentence)
    THEN IF HasKeyword(kp, node)
         THEN [found |-> TRUE, seq |-> node, end |-> idy]
         ELSE best
    ELSE LET inner_char == sentence[idy + 1]
             best2 == IF inner_char \notin non_word_boundaries /\ HasKeyword(kp, node)
                      THEN [found |-> TRUE, seq |-> node, end |-> idy]
                      ELSE best
         IN IF HasChild(kp, node, inner_char)
            THEN LongestFrom(kp, sentence, idy + 1, Append(node, inner_char), best2)
            ELSE best2

\* "skip to end of word": the first position after idx that holds a word
\* boundary, or the length of the sentence.
RECURSIVE EndOfWord(_, _)
EndOfWord(sentence, idy) ==
    IF idy >= Len(sentence) \/ sentence[idy + 1] \notin non_word_boundaries
    THEN idy
    ELSE EndOfWord(sentence, idy + 1)

\* The main loop of extract_keywords: the trie nodes of the keywords
\* extracted from position idx on, with current_dict = node.
RECURSIVE ExtractFrom(_, _, _, _)
ExtractFrom(kp, sentence, idx, node) ==
    IF idx >= Len(sentence) THEN <<>>
    ELSE
    LET char == sentence[idx + 1]
        none == [found |-> FALSE, seq |-> <<>>, end |-> idx]
        atBoundary == char \notin non_word_boundaries
        ends == atBoundary /\ (HasKeyword(kp, node) \/ HasChild(kp, node, char))
        here == IF HasKeyword(kp, node)
                THEN [found |-> FALSE, seq |-> node, end |-> idx]
                ELSE none
        longer == IF ends /\ HasChild(kp, node, char)
                  THEN LongestFrom(kp, sentence, idx + 1, Append(node, char), here)
                  ELSE here
        \* the keyword appended in the boundary branch, <<>> for None
        longest == IF ends THEN longer.seq ELSE <<>>
        \* idx after the branch
        idx2 == IF atBoundary
                THEN (IF ends /\ longer.found THEN longer.end ELSE idx)
                ELSE IF HasChild(kp, node, char) THEN idx
                ELSE EndOfWord(sentence, idx + 1)
        \* current_dict after the branch
        node2 == IF ~atBoundary /\ HasChild(kp, node, char)
                 THEN Append(node, char)
                 ELSE <<>>
        first == IF longest # <<>> THEN <<longest>> ELSE <<>>
        \* "if we are end of sentence and have a sequence discovered"
        atEnd == IF idx2 + 1 >= Len(sentence) /\ HasKeyword(kp, node2)
                 THEN <<node2>> ELSE <<>>
    IN first \o atEnd \o ExtractFrom(kp, sentence, idx2 + 1, node2)

\* KeywordProcessor.extract_keywords(sentence): the clean names of the
\* keywords found, in the order found, repeats included.
extract_keywords(keys, case_sensitive, sentence) ==
    LET kp == BuildKeywordProcessor(keys, case_sensitive)
        s == IF case_sensitive THEN sentence ELSE lower(sentence)
        nodes == ExtractFrom(kp, s, 0, <<>>)
    IN [i \in 1..Len(nodes) |-> CleanName(keys, case_sensitive, nodes[i])]

\* found_terms = set(extract_keywords(check_line)): the terms found on a
\* line, each once (as a sequence without repeats, in order of first find).
RECURSIVE set(_)
set(kws) ==
    IF kws = <<>> THEN <<>>
    ELSE LET front == set(SubSeq(kws, 1, Len(kws) - 1))
             last == kws[Len(kws)]
         IN IF last \in Range(front) THEN front ELSE Append(front, last)

\* The raw list of extract_keywords, repeats kept.
foundTermsNoSet(keys, case_sensitive, line) ==
    extract_keywords(keys, case_sensitive,
                     IF case_sensitive THEN line ELSE lower(line))

\* Lines 84-85 of process_file: check_line and found_terms of one line.
found_terms(keys, case_sensitive, line) ==
    set(extract_keywords(keys, case_sensitive,
                         IF case_sensitive THEN line ELSE lower(line)))

\* A hit put in front of the list instead of behind it.
prependHit(hits, relpath, i) == <<<<relpath, i>>>> \o hits

\* list.append((relpath, i))
appendHit(hits, relpath, i) == Append(hits, <<relpath, i>>)

\* term_hits.setdefault(term, []).append((relpath, i)) for each found term.
RECURSIVE recordHits(_, _, _, _)
recordHits(hits, found, relpath, i) ==
    IF found = <<>> THEN hits
    ELSE LET term == Head(found)
             old == IF term \in DOMAIN hits THEN hits[term] ELSE <<>>
             new == appendHit(old, relpath, i)
         IN recordHits((term :> new) @@ hits, Tail(found), relpath, i)

\* The hit list replaced by the file's hits instead of extended by them.
overwrite(list, hits) == hits

\* list.extend(hits)
extend(list, hits) == list \o hits

\* A table rebuilt from the merged term alone.
mergedAlone(table, term, hits) == (term :> extend(table[term], hits))

\* termList[term].extend(hits)
merged(table, term, hits) == [table EXCEPT ![term] = extend(@, hits)]

\* process_file on a file of which n lines could be read: its term_hits.
RECURSIVE process_file(_, _, _, _, _)
process_file(keys, case_sensitive, relpath, file, n) ==
    IF n = 0 THEN <<>>
    ELSE recordHits(process_file(keys, case_sensitive, relpath, file, n - 1),
                    found_terms(keys, case_sensitive, file[n]), relpath, n)

(***************************************************************************)
(* Inputs.                                                                 *)
(***************************************************************************)
\* The files a corpus of the scan is drawn from, each a sequence of lines.
FilePool ==
    { << <<"a", " ", "a", " ">>, <<"b", " ">> >>,
      << <<"A", ".", "a", "1", " ">>, <<"a">> >>,
      << <<"1", "a", " ">> >> }

\* The term list of the scan, as split from the term file.
ScanTerms == << <<"a">>, <<"A">>, <<"a", "1">>, <<"c">> >>

\* Sequences over S of length n.
SeqsOfLen(S, n) == [1..n -> S]

\* Sequences over S of length at most n.
SeqsUpTo(S, n) == UNION {SeqsOfLen(S, k) : k \in 0..n}

\* The terms a single line is scanned for.
TermPool ==
    { <<"a">>, <<"A">>, <<"a", "1">>, <<"a", ".", "a">>, <<"a", "_", "1">> }

\* Term lists of one or two different terms.
LineTermLists ==
    {<<t>> : t \in TermPool}
    \cup {<<t, u>> : <<t, u>> \in {p \in TermPool \X TermPool : p[1] # p[2]}}

(***************************************************************************)
(* State.                                                                  *)
(***************************************************************************)
VARIABLES
    terms,          \* the words of the term list file, in order
    case_sensitive, \* --case_sensitive
    all_files,      \* the corpus: file f is all_files[f], a sequence of lines
    max_workers,    \* the size of the thread pool
    pc,             \* where the main thread is
    termList,       \* the result table: term -> sequence of <<file, line>>
    submitted,      \* how many futures executor.submit has created
    state,          \* each future: "new", "pending", "running", "finished"
    lineno,         \* process_file: lines of the file read so far
    term_hits,      \* process_file: the private result of each file
    failed,         \* whether reading the file raised
    yielded,        \* the futures as_completed has yielded
    merging,        \* the futures whose result the merge loop is folding in
    remaining,      \* the terms of that result still to merge
    written         \* whether WriteOutput has written the table

vars == <<terms, case_sensitive, all_files, max_workers, pc, termList,
          submitted, state, lineno, term_hits, failed, yielded, merging,
          remaining, written>>

inputs == <<terms, case_sensitive, all_files, max_workers>>

Files == 1..Len(all_files)

NoHits == <<>>

Start ==
    /\ pc = "load"
    /\ termList = <<>>
    /\ submitted = 0
    /\ state = [f \in Files |-> "new"]
    /\ lineno = [f \in Files |-> 0]
    /\ term_hits = [f \in Files |-> NoHits]
    /\ failed = [f \in Files |-> FALSE]
    /\ yielded = {}
    /\ merging = {}
    /\ remaining = {}
    /\ written = FALSE

\* A scan of a corpus of up to MaxFiles files by up to MaxWorkers threads.
Init ==
    /\ terms = ScanTerms
    /\ case_sensitive \in BOOLEAN
    /\ all_files \in SeqsUpTo(FilePool, MaxFiles)
    /\ max_workers \in 1..MaxWorkers
    /\ Start

\* A scan of one file of one line, by one thread.
InitLine ==
    /\ terms \in LineTermLists
    /\ case_sensitive \in BOOLEAN
    /\ \E line \in SeqsUpTo(Alphabet, MaxLineLen) : all_files = << <<line>> >>
    /\ max_workers = 1
    /\ Start

(***************************************************************************)
(* The main thread.                                                        *)
(***************************************************************************)
\* The main thread after n futures are submitted: the list comprehension
\* goes on, or the as_completed loop starts.
AfterSubmit(n) == IF n = Len(all_files) THEN "collect" ELSE "submit"

\* termList = LoadTermList(...), then ScanFiles starts.
LoadTermList ==
    /\ pc = "load"
    /\ termList' = LoadedTermList(terms, case_sensitive)
    /\ pc' = AfterSubmit(0)
    /\ UNCHANGED <<inputs, submitted, state, lineno, term_hits, failed,
                   yielded, merging, remaining, written>>

\* executor.submit(process_file, filepath, ...) for the next file.
Submit ==
    /\ pc = "submit"
    /\ submitted < Len(all_files)
    /\ submitted' = submitted + 1
    /\ state' = [state EXCEPT ![submitted + 1] = "pending"]
    /\ pc' = AfterSubmit(submitted + 1)
    /\ UNCHANGED <<inputs, termList, lineno, term_hits, failed, yielded,
                   merging, remaining, written>>

\* as_completed yields a finished future; result = future.result().
NextCompleted(f) ==
    /\ pc = "collect"
    /\ state[f] = "finished"
    /\ f \notin yielded
    /\ yielded' = yielded \cup {f}
    /\ merging' = merging \cup {f}
    /\ remaining' = DOMAIN term_hits[f]
    /\ pc' = "merge"
    /\ UNCHANGED <<inputs, termList, submitted, state, lineno, term_hits,
                   failed, written>>

\* One round of `for term, hits in result.items()`.
MergeTerm(f, term) ==
    /\ pc = "merge"
    /\ f \in merging
    /\ term \in remaining
    /\ termList' = merged(termList, term, term_hits[f][term])
    /\ remaining' = remaining \ {term}
    /\ UNCHANGED <<inputs, pc, submitted, state, lineno, term_hits, failed,
                   yielded, merging, written>>

\* The inner loop is over: back to as_completed.
EndMerge ==
    /\ pc = "merge"
    /\ remaining = {}
    /\ merging' = {}
    /\ pc' = "collect"
    /\ UNCHANGED <<inputs, termList, submitted, state, lineno, term_hits,
                   failed, yielded, remaining, written>>

\* as_completed is exhausted and the with block is left: ScanFiles returns.
ScanDone ==
    /\ pc = "collect"
    /\ yielded = Files
    /\ pc' = "write"
    /\ UNCHANGED <<inputs, termList, submitted, state, lineno, term_hits,
                   failed, yielded, merging, remaining, written>>

\* WriteOutput(...)
WriteOutput ==
    /\ pc = "write"
    /\ written' = TRUE
    /\ pc' = "done"
    /\ UNCHANGED <<inputs, termList, submitted, state, lineno, term_hits,
                   failed, yielded, merging, remaining>>

\* KeyboardInterrupt is raised in the main thread inside the with block:
\* the loops are abandoned and ThreadPoolExecutor.__exit__ runs
\* shutdown(wait=True).
Interrupt ==
    /\ pc \in {"submit", "collect", "merge"}
    /\ pc' = "shutdown"
    /\ merging' = {}
    /\ remaining' = {}
    /\ UNCHANGED <<inputs, termList, submitted, state, lineno, term_hits,
                   failed, yielded, written>>

\* shutdown(wait=True) has joined the worker threads, which end when the
\* work queue is empty; the interrupt reaches __main__, which exits.
Exit ==
    /\ pc = "shutdown"
    /\ \A f \in Files : state[f] \in {"new", "finished"}
    /\ pc' = "stopped"
    /\ UNCHANGED <<inputs, termList, submitted, state, lineno, term_hits,
                   failed, yielded, merging, remaining, written>>

(***************************************************************************)
(* The worker threads.                                                     *)
(***************************************************************************)
\* A free worker takes the oldest work item off the queue and calls
\* process_file, which starts with term_hits = {}.
StartTask(f) ==
    /\ state[f] = "pending"
    /\ \A g \in Files : state[g] = "pending" => f <= g
    /\ Cardinality({g \in Files : state[g] = "running"}) < max_workers
    /\ state' = [state EXCEPT ![f] = "running"]
    /\ UNCHANGED <<inputs, pc, termList, submitted, lineno, term_hits, failed,
                   yielded, merging, remaining, written>>

\* The worker writes the hits of the line into the shared table at once.
ScanLineShared(f) ==
    /\ state[f] = "running"
    /\ lineno[f] < Len(all_files[f])
    /\ lineno' = [lineno EXCEPT ![f] = @ + 1]
    /\ LET found == found_terms(DOMAIN termList, case_sensitive,
                                all_files[f][lineno[f] + 1])
       IN termList' = recordHits(termList, found, f, lineno[f] + 1)
    /\ UNCHANGED <<inputs, pc, term_hits, submitted, state, failed, yielded,
                   merging, remaining, written>>

\* One round of `for i, line in enumerate(f, 1)`.
ScanLine(f) ==
    /\ state[f] = "running"
    /\ lineno[f] < Len(all_files[f])
    /\ lineno' = [lineno EXCEPT ![f] = @ + 1]
    /\ LET found == found_terms(DOMAIN termList, case_sensitive,
                                all_files[f][lineno[f] + 1])
       IN term_hits' = [term_hits EXCEPT
                          ![f] = recordHits(@, found, f, lineno[f] + 1)]
    /\ UNCHANGED <<inputs, pc, termList, submitted, state, failed, yielded,
                   merging, remaining, written>>

\* open() or the read of the next line raises: `except: pass`, and
\* process_file returns term_hits as it stands.
ReadFail(f) ==
    /\ state[f] = "running"
    /\ failed' = [failed EXCEPT ![f] = TRUE]
    /\ state' = [state EXCEPT ![f] = "finished"]
    /\ UNCHANGED <<inputs, pc, termList, submitted, lineno, term_hits, yielded,
                   merging, remaining, written>>

\* The file is read to its end: process_file returns term_hits.
FinishTask(f) ==
    /\ state[f] = "running"
    /\ lineno[f] = Len(all_files[f])
    /\ state' = [state EXCEPT ![f] = "finished"]
    /\ UNCHANGED <<inputs, pc, termList, submitted, lineno, term_hits, failed,
                   yielded, merging, remaining, written>>

Next ==
    \/ LoadTermList
    \/ Submit
    \/ \E f \in Files : NextCompleted(f)
    \/ \E f \in Files, term \in DOMAIN termList : MergeTerm(f, term)
    \/ EndMerge
    \/ ScanDone
    \/ WriteOutput
    \/ Interrupt
    \/ Exit
    \/ \E f \in Files : StartTask(f)
    \/ \E f \in Files : ScanLine(f)
    \/ \E f \in Files : ReadFail(f)
    \/ \E f \in Files : FinishTask(f)

\* The scan of one line: no interrupt, no read failure.
NextLine ==
    \/ LoadTermList
    \/ Submit
    \/ \E f \in Files : NextCompleted(f)
    \/ \E f \in Files, term \in DOMAIN termList : MergeTerm(f, term)
    \/ EndMerge
    \/ ScanDone
    \/ WriteOutput
    \/ \E f \in Files : StartTask(f)
    \/ \E f \in Files : ScanLine(f)
    \/ \E f \in Files : FinishTask(f)

Spec == Init /\ [][Next]_vars

SpecLine == InitLine /\ [][NextLine]_vars


(***************************************************************************)
(* Properties.                                                             *)
(***************************************************************************)
Count(s, e) == Cardinality({i \in 1..Len(s) : s[i] = e})

BagOfSeq(s) == [e \in Range(s) |-> Count(s, e)]

Keys == {TermKey(terms[i], case_sensitive) : i \in 1..Len(terms)}

ScanComplete == pc \in {"write", "done"}

\* The line as the scanner sees it.
CheckLine(f, i) ==
    IF case_sensitive THEN all_files[f][i] ELSE lower(all_files[f][i])

\* term occurs in line at positions from..from+Len(term)-1.
OccursAt(term, line, from) ==
    /\ from + Len(term) - 1 <= Len(line)
    /\ SubSeq(line, from, from + Len(term) - 1) = term

\* Neither neighbour of the occurrence is a character of the set Word.
Flanked(term, line, from, Word) ==
    /\ from > 1 => line[from - 1] \notin Word
    /\ from + Len(term) <= Len(line) => line[from + Len(term)] \notin Word

\* str.isalnum() on one code point: letters of any script and digits; "_"
\* is not alphanumeric.
isalnum(c) == c \in AsciiLower \cup AsciiUpper \cup AsciiDigits \cup Accented

Alnum == {c \in Alphabet \cup AsciiLower : isalnum(c)}

\* term occurs in line between characters that are not alphanumeric.
WholeToken(term, line) ==
    \E from \in 1..Len(line) :
        OccursAt(term, line, from) /\ Flanked(term, line, from, Alnum)

\* term occurs in line between characters that are neither alphanumeric nor
\* "_": a whole token whichever way "_" is classed.
WholeTokenStrict(term, line) ==
    \E from \in 1..Len(line) :
        OccursAt(term, line, from)
        /\ Flanked(term, line, from, Alnum \cup {"_"})

\* C1: every term that occurs on a scanned line as a whole token has a hit
\* for that line once the scan is complete, also when the occurrence lies
\* within another term's match.  Stated for the occurrences that are whole
\* tokens whichever way "_" is classed, so that a violation is an absorbed
\* occurrence and not a matter of how "_" is read.
C1_OverlapTolerant ==
    ScanComplete =>
        \A k \in DOMAIN termList : \A f \in Files :
            \A i \in 1..Len(all_files[f]) :
                WholeTokenStrict(TrieWord(k, case_sensitive), CheckLine(f, i))
                    => Count(termList[k], <<f, i>>) >= 1

\* C2: a hit is recorded for a term and a line only if the term occurs on
\* the line with no alphanumeric character (as Unicode code points) right
\* before it and right after it.
C2_WholeTokenOnly ==
    \A k \in DOMAIN termList : \A f \in Files :
        \A i \in 1..Len(all_files[f]) :
            Count(termList[k], <<f, i>>) >= 1
                => WholeToken(TrieWord(k, case_sensitive), CheckLine(f, i))

\* C3, as claimed: under case-insensitive mode every term of the term list
\* is a key of the result table under its original string.
C3_OriginalTermsAreKeys ==
    (pc # "load" /\ ~case_sensitive) =>
        \A i \in 1..Len(terms) : terms[i] \in DOMAIN termList

\* C3, amended: under case-insensitive mode the key of a term is its
\* lower-cased form and no other string is a key, so that terms that
\* lower-case to the same string share one key and one hit list; every hit
\* list is empty until the first result is merged.
C3_KeysAreLowerCased ==
    (pc # "load" /\ ~case_sensitive) =>
        /\ \A i \in 1..Len(terms) : lower(terms[i]) \in DOMAIN termList
        /\ \A k \in DOMAIN termList : k = lower(k)
        /\ yielded = {} => \A k \in DOMAIN termList : termList[k] = <<>>

\* Two terms of the list differ only in case, the scan is complete and
\* their one key has hits.
C3_Witness ==
    /\ pc = "done" /\ ~case_sensitive
    /\ \E i, j \in 1..Len(terms) :
          /\ terms[i] # terms[j]
          /\ lower(terms[i]) = lower(terms[j])
          /\ terms[i] \notin DOMAIN termList
          /\ termList[lower(terms[i])] # <<>>

\* The hits of term k in a scan by one worker, which runs and merges the
\* files in corpus order, file f read as far as lineno[f].
RECURSIVE SequentialHits(_, _)
SequentialHits(k, n) ==
    IF n = 0 THEN <<>>
    ELSE LET result == process_file(Keys, case_sensitive, n, all_files[n],
                                    lineno[n])
         IN SequentialHits(k, n - 1)
            \o (IF k \in DOMAIN result THEN result[k] ELSE <<>>)

\* C4: when the scan is complete, every term has the same multiset of
\* (file, line) hits as a scan of the same corpus by a pool of one worker,
\* whatever the pool size and the order the workers finished in.
C4_PoolMatchesSequential ==
    ScanComplete =>
        \A k \in DOMAIN termList :
            BagOfSeq(termList[k]) = BagOfSeq(SequentialHits(k, Len(all_files)))

\* A pool of two workers has completed a scan in which the second file's
\* hits of a term were merged before the first file's.
C4_Witness ==
    /\ pc = "done" /\ max_workers > 1 /\ Len(all_files) > 1
    /\ \E k \in DOMAIN termList :
          /\ Len(termList[k]) > 1
          /\ termList[k][1][1] = 2
          /\ termList[k][Len(termList[k])][1] = 1

\* C5: a file whose read failed contributes an empty result, also when the
\* failure came after some lines were scanned.
C5_UnreadableFileIsEmpty ==
    \A f \in Files : failed[f] => term_hits[f] = NoHits

\* C6: once the interrupt has arrived, no file scan that had not started is
\* started.
C6_NoStartAfterInterrupt ==
    [][pc = "shutdown" =>
          \A f \in Files : state[f] # "running" => state'[f] # "running"]_vars

\* C7: a term's hit list holds no (file, line) twice, and when the scan is
\* complete it holds, for every file that was read to its end, one hit for
\* each line the term is found on and none for the other lines.
C7_OneHitPerLine ==
    \A k \in DOMAIN termList : \A f \in Files :
        \A i \in 1..Len(all_files[f]) :
            /\ Count(termList[k], <<f, i>>) <= 1
            /\ (ScanComplete /\ ~failed[f]) =>
                  (Count(termList[k], <<f, i>>) = 1
                     <=> k \in Range(extract_keywords(DOMAIN termList,
                                        case_sensitive, CheckLine(f, i))))

\* The scan is complete; a term occurs twice on one line and has one hit for
\* it, and a term has hits for two lines of one file.
C7_Witness ==
    /\ pc = "done"
    /\ \E k \in DOMAIN termList : \E f \in Files :
          \E i \in 1..Len(all_files[f]) :
             /\ Count(extract_keywords(DOMAIN termList, case_sensitive,
                                       CheckLine(f, i)), k) > 1
             /\ Count(termList[k], <<f, i>>) = 1
    /\ \E k \in DOMAIN termList : \E f \in Files :
          /\ Count(termList[k], <<f, 1>>) = 1
          /\ Count(termList[k], <<f, 2>>) = 1

\* C8: in every term's hit list the hits of one file are in strictly
\* ascending line order.
C8_AscendingWithinFile ==
    \A k \in DOMAIN termList :
        \A i, j \in 1..Len(termList[k]) :
            (i < j /\ termList[k][i][1] = termList[k][j][1])
                => termList[k][i][2] < termList[k][j][2]

\* A term's hit list holds two hits of the first file after a hit of the
\* second file.
C8_Witness ==
    \E k \in DOMAIN termList :
        /\ Len(termList[k]) = 3
        /\ termList[k][1][1] = 2
        /\ termList[k][2] = <<1, 1>>
        /\ termList[k][3] = <<1, 2>>

\* C9: from the loading of the term list on the keys of the result table
\* are the keys LoadTermList made of the terms; every hit list is empty
\* when loaded and from then on only grows at its end; and when the scan is
\* complete a term found on no line that was read has an empty hit list.
C9_NoTermLost ==
    /\ [](pc # "load" => DOMAIN termList = Keys)
    /\ [][pc = "load" =>
             \A k \in DOMAIN termList' : termList'[k] = <<>>]_vars
    /\ [][\A k \in DOMAIN termList \cap DOMAIN termList' :
             IsPrefix(termList[k], termList'[k])]_vars
    /\ [](ScanComplete =>
            \A k \in DOMAIN termList :
                (\A f \in Files : \A i \in 1..lineno[f] :
                    k \notin Range(extract_keywords(Keys, case_sensitive,
                                                    CheckLine(f, i))))
                    => termList[k] = <<>>)

\* The scan is complete; one term has hits from two merges and another,
\* found nowhere, has none.
C9_Witness ==
    /\ pc = "done"
    /\ \E k \in DOMAIN termList :
          Len(termList[k]) > 1 /\ termList[k][1][1] # termList[k][2][1]
    /\ \E k \in DOMAIN termList : termList[k] = <<>>

\* C10: at most one merge is in progress, and only of a finished scan; the
\* result table changes only by the merge loop appending the hits of the
\* result being merged; and a step that changes a file's private result is
\* a step of that file's running scan, which leaves the table and the other
\* files' results alone.
C10_MergeIsExclusive ==
    /\ [](/\ Cardinality(merging) <= 1
          /\ \A f \in merging : state[f] = "finished")
    /\ [][(pc # "load" /\ termList' # termList) =>
             /\ pc = "merge"
             /\ term_hits' = term_hits
             /\ \E f \in merging : \E t \in remaining :
                   termList' = [termList EXCEPT
                                  ![t] = @ \o term_hits[f][t]]]_vars
    /\ [][\A f \in Files :
             term_hits'[f] # term_hits[f] =>
                /\ state[f] = "running"
                /\ termList' = termList
                /\ \A g \in Files \ {f} : term_hits'[g] = term_hits[g]]_vars

\* A merge is half done while a worker is in the middle of another file.
C10_Witness ==
    /\ pc = "merge"
    /\ termList # LoadedTermList(terms, case_sensitive)
    /\ remaining # {}
    /\ \E f \in Files : state[f] = "running" /\ lineno[f] = 1

=============================================================================
